---- MODULE Spec2Model ----
(***************************************************************************)
(* Browser-Use Bridge (docs/browser-use-proxy-server/main.py): the run and *)
(* session lifecycle.  An HTTP request creates a run or session directory  *)
(* and schedules _run_browser_task as a background task; the task writes   *)
(* status.json and screenshot.png in that directory while pollers read     *)
(* them; a session is completed into a profile, which is fetched as an     *)
(* archive or deleted.                                                     *)
(*                                                                         *)
(* The async handlers and the background tasks run on one event loop; the  *)
(* plain `def` handlers (run_status, run_screenshot, session_live,         *)
(* complete_session, get_profile, delete_profile) run on worker threads    *)
(* and interleave with every step of a task, including the two halves of   *)
(* write_status: open(.., 'w') truncates the file, json.dump fills it.     *)
(*                                                                         *)
(* The filesystem is the state.  A directory's content is the set of the   *)
(* ids of the browsers that wrote into it.  Every call into re, the        *)
(* filesystem or the automation library either returns or raises.          *)
(***************************************************************************)
EXTENDS Integers, FiniteSets, Sequences, TLC

\* Bounds of the model.
MaxIds == 2         \* run and session ids drawn from uuid4
MaxProfiles == 1    \* profile ids drawn from uuid4 by complete_session

Ids == 1..MaxIds
\* The profile id a client makes up; 1..MaxProfiles are the uuid4 ones.
ClientProfile == 0
ProfileIds == ClientProfile..MaxProfiles

\* Optional[str]: <<>> is None, <<p>> is the value p.
None == <<>>
Some(p) == <<p>>

Phases == {"queued", "starting", "launching_browser", "finished", "error"}
Terminal == {"finished", "error"}

\* The content of a status.json: a record as json.dump writes it, no file,
\* or the empty or partial file between open(.., 'w') and the end of json.dump.
Record(phase, err) == [status |-> phase, error |-> err]
Absent == Record("absent", "")
Torn == Record("torn", "")
NoBackendMsg == "no browser backend available"

\* ProxyModel: server, and the optional username and password, Null for a
\* field that is None; body.proxy.dict() keeps the three fields.
Null == "null"
ProxyModel(server, username, password) ==
    [server |-> server, username |-> username, password |-> password]
\* The truth value Python gives an optional string: None and '' are false.
Truthy(x) == x \notin {Null, ""}
\* The proxy of a request: none, or a descriptor with each credential absent,
\* empty or given.
ProxyDescriptors ==
    {None} \cup {Some(ProxyModel("s", u, w)) : u \in {Null, "", "u"}, w \in {Null, "", "w"}}

\* A directory: whether it exists and which browsers wrote into it.
NoDir == [exists |-> FALSE, files |-> {}]
Dir(fs) == [exists |-> TRUE, files |-> fs]

\* Authorization headers: a sequence of symbols, "B" the word Bearer, "_" a
\* space, "k" the configured secret, "x" another token.  <<>> is no header.
Bearer == <<"B", "_", "k">>
Padded == <<"B", "_", "_", "k", "_">>
Headers == { <<>>, Bearer, <<"B", "_", "x">>, Padded, <<"k">> }

VARIABLES
    BRIDGE_API_KEY,     \* the configured secret, <<>> when unset
    HAVE_BROWSER_USE,   \* import of browser_use succeeded
    HAVE_PLAYWRIGHT,    \* import of playwright succeeded
    kind,               \* id -> "none" | "run" (RUNS_DIR/id exists) | "session" (SESSIONS_DIR/id exists)
    status,             \* id -> content of <dir>/status.json
    screenshot,         \* id -> <dir>/screenshot.png exists
    workdir,            \* id -> the directory <dir>/profile
    profiles,           \* profile id -> the directory PROFILES_DIR/<profile id>
    zips,               \* profile id -> PROFILES_DIR/<profile id>.zip exists
    minted,             \* the number of profile ids complete_session drew from uuid4
    pc,                 \* id -> position of its _run_browser_task
    s,                  \* id -> the record last handed to json.dump for its status.json
    profile_id,         \* id -> the task's profile_id argument
    proxy,              \* id -> the task's proxy argument: None or the dict of the request's ProxyModel
    launch_proxy,       \* id -> the proxy settings its browser was launched with, None without
    browser,            \* id -> the task's browser: "none", "open", or "closed" once stop/close was called or the driver was stopped
    exc,                \* id -> the call of the task that raised last, "" when none did
    loop                \* the id of the task that runs on the event loop between two awaits, 0 when it is idle

vars == <<BRIDGE_API_KEY, HAVE_BROWSER_USE, HAVE_PLAYWRIGHT, kind, status,
          screenshot, workdir, profiles, zips, minted, pc, s, profile_id, proxy,
          launch_proxy, browser, exc, loop>>

config == <<BRIDGE_API_KEY, HAVE_BROWSER_USE, HAVE_PLAYWRIGHT>>
store == <<profiles, zips, minted>>
task == <<pc, s, profile_id, proxy, launch_proxy, browser, exc, loop>>

\* An HTTP response: the status code and the body (the detail of an error).
Response(code, body) == [code |-> code, body |-> body]

Init ==
    /\ BRIDGE_API_KEY \in {<<>>, <<"k">>}
    /\ HAVE_BROWSER_USE \in BOOLEAN
    /\ HAVE_PLAYWRIGHT \in BOOLEAN
    /\ kind = [i \in Ids |-> "none"]
    /\ status = [i \in Ids |-> Absent]
    /\ screenshot = [i \in Ids |-> FALSE]
    /\ workdir = [i \in Ids |-> NoDir]
    /\ profiles = [p \in ProfileIds |-> NoDir]
    /\ zips = [p \in ProfileIds |-> FALSE]
    /\ minted = 0
    /\ pc = [i \in Ids |-> "none"]
    /\ s = [i \in Ids |-> Absent]
    /\ profile_id = [i \in Ids |-> None]
    /\ proxy = [i \in Ids |-> None]
    /\ launch_proxy = [i \in Ids |-> None]
    /\ browser = [i \in Ids |-> "none"]
    /\ exc = [i \in Ids |-> ""]
    /\ loop = 0

----------------------------------------------------------------------------
\* check_auth

\* auth.startswith("Bearer ")
StartsWithBearer(auth) == Len(auth) >= 2 /\ auth[1] = "B" /\ auth[2] = "_"

RECURSIVE LStrip(_)
LStrip(t) == IF t # <<>> /\ Head(t) = "_" THEN LStrip(Tail(t)) ELSE t

RECURSIVE RStrip(_)
RStrip(t) == IF t # <<>> /\ t[Len(t)] = "_" THEN RStrip(SubSeq(t, 1, Len(t) - 1)) ELSE t

\* auth.split(" ", 1)[1].strip() of a header that starts with "Bearer "
Token(auth) == RStrip(LStrip(SubSeq(auth, 3, Len(auth))))

\* A check that looks for the scheme and never compares the token.
check_auth_any_token(auth) ==
    IF BRIDGE_API_KEY = <<>> THEN "ok"
    ELSE IF auth = <<>> \/ ~StartsWithBearer(auth) THEN "Missing Authorization header"
    ELSE "ok"

\* "ok", or the detail of the HTTPException(401)
check_auth(auth) ==
    IF BRIDGE_API_KEY = <<>> THEN "ok"
    ELSE IF auth = <<>> \/ ~StartsWithBearer(auth) THEN "Missing Authorization header"
    ELSE IF Token(auth) # BRIDGE_API_KEY THEN "Invalid API key"
    ELSE "ok"

\* A handler that makes its directory before it calls check_auth.
Rejected_after_mkdir(auth) ==
    /\ check_auth(auth) # "ok"
    /\ kind' = [i \in Ids |-> IF kind[i] = "none" /\ \A j \in Ids : j < i => kind[j] # "none"
                              THEN "run" ELSE kind[i]]
    /\ UNCHANGED <<BRIDGE_API_KEY, HAVE_BROWSER_USE, HAVE_PLAYWRIGHT, status, screenshot,
                   workdir, profiles, zips, minted, pc, s, profile_id, proxy,
                   launch_proxy, browser, exc, loop>>

\* A guarded handler whose check_auth raised: the 401 is the whole request.
Rejected(auth) ==
    /\ check_auth(auth) # "ok"
    /\ UNCHANGED vars

----------------------------------------------------------------------------
\* uuid.uuid4().hex: an id no earlier call returned.
FreshId == CHOOSE i \in Ids : kind[i] = "none" /\ \A j \in Ids : j < i => kind[j] # "none"
HasFreshId == \E i \in Ids : kind[i] = "none"

\* The profile_id of a request: none, a name the client makes up, or the id
\* of a profile that exists (a client learns a uuid4 id from complete_session).
OptProfile == {None, Some(ClientProfile)} \cup {Some(p) : p \in {q \in ProfileIds : profiles[q].exists}}

\* background.add_task(_run_browser_task, task, outdir, profile_id, proxy)
AddTask(id, p, d) ==
    /\ pc' = [pc EXCEPT ![id] = "pending"]
    /\ profile_id' = [profile_id EXCEPT ![id] = p]
    /\ proxy' = [proxy EXCEPT ![id] = d]
    /\ UNCHANGED <<launch_proxy, browser, exc, loop>>

\* POST /run-task
run_task(auth, p, d) ==
    \/ Rejected(auth)
    \/ /\ check_auth(auth) = "ok"
       /\ loop = 0
       /\ HasFreshId
       /\ LET run_id == FreshId IN
          /\ kind' = [kind EXCEPT ![run_id] = "run"]
          /\ status' = [status EXCEPT ![run_id] = Record("queued", "")]
          /\ s' = [s EXCEPT ![run_id] = Record("queued", "")]
          /\ AddTask(run_id, p, d)
       /\ UNCHANGED <<config, screenshot, workdir, store>>

\* POST /sessions: the directory is made, no status.json is written.
create_session(auth, p, d) ==
    \/ Rejected(auth)
    \/ /\ check_auth(auth) = "ok"
       /\ loop = 0
       /\ HasFreshId
       /\ LET sid == FreshId IN
          /\ kind' = [kind EXCEPT ![sid] = "session"]
          /\ AddTask(sid, p, d)
       /\ UNCHANGED <<config, status, s, screenshot, workdir, store>>

----------------------------------------------------------------------------
\* The handlers that run on worker threads.  A GET handler changes nothing:
\* it is its response as a function of the files it reads, and a poll issued
\* at some point of a run is that function in the state reached there.

\* json.loads of the content of a status.json: the record, or an exception on
\* an empty or partial file.
Parses(content) == content # Torn

\* GET /runs/{run_id}/status
run_status(run_id) ==
    IF kind[run_id] = "run" /\ status[run_id] # Absent
    THEN IF Parses(status[run_id])
         THEN Response(200, status[run_id].status)
         ELSE Response(500, "status read error")
    ELSE Response(404, "run not found")

\* GET /runs/{run_id}/screenshot
run_screenshot(run_id) ==
    IF kind[run_id] = "run" /\ screenshot[run_id]
    THEN Response(200, "image/png")
    ELSE Response(404, "screenshot not found")

\* GET /sessions/{sid}/live
session_live(sid) ==
    IF kind[sid] = "session" /\ screenshot[sid]
    THEN Response(200, "image/png")
    ELSE IF kind[sid] = "session" /\ status[sid] # Absent /\ Parses(status[sid])
    THEN Response(200, status[sid].status)
    ELSE Response(404, "session not ready")

\* mkdir(parents=True, exist_ok=True) of d
Mkdir(d) == IF d.exists THEN d ELSE Dir({})

\* The source directory of complete_session's copy.
CompleteSource(sid) == workdir[sid]

\* A copy without the fallback: nothing is made when src does not exist.
CopyTree_strict(src) == src

\* try: shutil.copytree(src, target) except Exception: target.mkdir(..), into
\* a target that does not exist: the copy of src, or an empty directory when
\* src does not exist.
CopyTree(src) == IF src.exists THEN src ELSE Dir({})

\* POST /sessions/{sid}/complete: 404 for a session directory that does not
\* exist, else a profile under an id fresh from uuid4.
complete_session(auth, sid) ==
    \/ Rejected(auth)
    \/ /\ check_auth(auth) = "ok"
       /\ kind[sid] # "session"
       /\ UNCHANGED vars
    \/ /\ check_auth(auth) = "ok"
       /\ kind[sid] = "session"
       /\ minted < MaxProfiles
       /\ minted' = minted + 1
       /\ profiles' = [profiles EXCEPT ![minted + 1] = CopyTree(CompleteSource(sid))]
       /\ UNCHANGED <<config, kind, status, screenshot, workdir, zips, task>>

\* An archive that is built inside the profile directory, which it changes.
get_profile_inside(auth, p) ==
    \/ Rejected(auth)
    \/ /\ check_auth(auth) = "ok"
       /\ zips' = [zips EXCEPT ![p] = zips[p] \/ profiles[p].exists]
       /\ profiles' = [profiles EXCEPT ![p] =
              IF profiles[p].exists THEN Dir(profiles[p].files \cup {0}) ELSE profiles[p]]
       /\ UNCHANGED <<config, kind, status, screenshot, workdir, minted, task>>

\* GET /profiles/{profile_id}: 404 without the directory, else the archive
\* PROFILES_DIR/<profile_id>.zip is made anew and sent.
get_profile(auth, p) ==
    \/ Rejected(auth)
    \/ /\ check_auth(auth) = "ok"
       /\ zips' = [zips EXCEPT ![p] = zips[p] \/ profiles[p].exists]
       /\ UNCHANGED <<config, kind, status, screenshot, workdir, profiles, minted, task>>

\* DELETE /profiles/{profile_id}: 404 without the directory, else rmtree of
\* the directory and unlink of the archive.
delete_profile(auth, p) ==
    \/ Rejected(auth)
    \/ /\ check_auth(auth) = "ok"
       /\ profiles' = [profiles EXCEPT ![p] = NoDir]
       /\ zips' = [zips EXCEPT ![p] = zips[p] /\ ~profiles[p].exists]
       /\ UNCHANGED <<config, kind, status, screenshot, workdir, minted, task>>

----------------------------------------------------------------------------
\* _run_browser_task(task, outdir, profile_id, proxy), one action per step.
\* The tasks and the async handlers share the event loop: a task is left only
\* at an await, so between two awaits no other task and no async handler runs
\* (loop), while the handlers on worker threads run at any time.

Backend ==
    IF HAVE_BROWSER_USE THEN "browser_use"
    ELSE IF HAVE_PLAYWRIGHT THEN "playwright"
    ELSE "none"

\* Task id takes a step: it holds the event loop, or resumes from an await.
Runs(id, at) == pc[id] = at /\ loop \in {0, id}

\* A status file that is not scoped to the task's outdir: every task writes
\* the record of the first id.
write_status_shared(id, rec) ==
    /\ s' = [s EXCEPT ![1] = rec]
    /\ status' = [status EXCEPT ![1] = Torn]
    /\ pc' = [pc EXCEPT ![id] = "write_status"]
    /\ loop' = id

\* write_status(rec), first half: open(status_file, 'w') truncates the file.
write_status(id, rec) ==
    /\ s' = [s EXCEPT ![id] = rec]
    /\ status' = [status EXCEPT ![id] = Torn]
    /\ pc' = [pc EXCEPT ![id] = "write_status"]
    /\ loop' = id

\* The statement that follows a completed write_status(rec).
AfterWrite(rec) ==
    CASE rec.status = "starting" -> "extract_url"
      [] rec.status = "launching_browser" -> "profile_dir"
      [] rec.status = "finished" -> IF Backend = "browser_use" THEN "stop" ELSE "aexit"
      [] OTHER -> "returned"

\* The positions at which the task waits in an await or has ended.
Parked == {"none", "pending", "launch", "goto", "screenshot", "close", "stop",
           "aexit", "returned", "raised"}

\* write_status, second half: json.dump and the close of the file.
WriteDump(id) ==
    /\ Runs(id, "write_status")
    /\ status' = [status EXCEPT ![id] = s[id]]
    /\ pc' = [pc EXCEPT ![id] = AfterWrite(s[id])]
    /\ loop' = IF AfterWrite(s[id]) \in Parked THEN 0 ELSE id
    /\ UNCHANGED <<config, kind, screenshot, workdir, store, s, profile_id, proxy, launch_proxy, browser, exc>>

\* The background task starts: write_status({'status': 'starting', ..}).
BeginTask(id) ==
    /\ Runs(id, "pending")
    /\ write_status(id, Record("starting", ""))
    /\ UNCHANGED <<config, kind, screenshot, workdir, store, profile_id, proxy, launch_proxy, browser, exc>>

\* An exception that leaves _run_browser_task: no handler encloses the statement.
Escapes(id, call) ==
    /\ exc' = [exc EXCEPT ![id] = call]
    /\ pc' = [pc EXCEPT ![id] = "raised"]
    /\ loop' = 0
    /\ UNCHANGED <<status, s>>

\* url = _extract_first_url(task), or the search URL, then
\* write_status({'status': 'launching_browser', ..}).  re.search compiles the
\* pattern on each call: CPython's parser rejects the class [\w-.~...] as a bad
\* character range and raises re.error; a parser that takes the '-' literally
\* returns a match or None.
ExtractUrl(id) ==
    /\ Runs(id, "extract_url")
    /\ \/ Escapes(id, "extract_url")
       \/ /\ write_status(id, Record("launching_browser", ""))
          /\ UNCHANGED exc
    /\ UNCHANGED <<config, kind, screenshot, workdir, store, profile_id, proxy, launch_proxy, browser>>

\* The directory the browser works in.
UsesProfile(id) == profile_id[id] # None
ProfileOf(id) == profile_id[id][1]
WorkingDir(id) == IF UsesProfile(id) THEN profiles[ProfileOf(id)] ELSE workdir[id]

\* A browser whose user_data_dir is d, run for task id, writes its files there.
BrowserWrites(d, id) == Dir(d.files \cup {id})

PutWorkingDir(id, d) ==
    IF UsesProfile(id)
    THEN /\ profiles' = [profiles EXCEPT ![ProfileOf(id)] = d]
         /\ UNCHANGED workdir
    ELSE /\ workdir' = [workdir EXCEPT ![id] = d]
         /\ UNCHANGED profiles

\* prepare profile dir: PROFILES_DIR / profile_id, or outdir / 'profile'; then
\* the task goes on to the backend, where its first await is.
PrepareProfileDir(id) ==
    /\ Runs(id, "profile_dir")
    /\ \/ /\ Escapes(id, "mkdir")
          /\ UNCHANGED <<workdir, profiles>>
       \/ /\ PutWorkingDir(id, Mkdir(WorkingDir(id)))
          /\ pc' = [pc EXCEPT ![id] = "launch"]
          /\ loop' = IF Backend = "none" THEN id ELSE 0
          /\ UNCHANGED <<status, s, exc>>
    /\ UNCHANGED <<config, kind, screenshot, zips, minted, profile_id, proxy, launch_proxy, browser>>

\* A handler that puts the failed run back in the queue instead of ending it.
Fail_requeues(id, call) ==
    /\ exc' = [exc EXCEPT ![id] = call]
    /\ s' = [s EXCEPT ![id] = Record("queued", "")]
    /\ status' = [status EXCEPT ![id] = Torn]
    /\ pc' = [pc EXCEPT ![id] = "write_status"]
    /\ loop' = id
    /\ UNCHANGED browser

\* except Exception as e: write_status({'status': 'error', 'error': str(e)}).
\* Under playwright the exception first leaves `async with async_playwright()`,
\* which stops the driver and with it the browser it launched; under
\* browser_use nothing stops the browser.
Fail(id, call) ==
    /\ exc' = [exc EXCEPT ![id] = call]
    /\ write_status(id, Record("error", call))
    /\ browser' = [browser EXCEPT ![id] =
           IF Backend = "playwright" /\ browser[id] = "open" THEN "closed" ELSE browser[id]]

\* The proxy a browser is launched with.  browser_use: ProxySettings(server,
\* username, password) of the dict's three values as they are.
BrowserUseProxy(d) ==
    IF d = None THEN None
    ELSE Some(ProxyModel(d[1].server, d[1].username, d[1].password))

\* A launch that drops the credentials.
PlaywrightProxy_server_only(d) ==
    IF d = None THEN None ELSE Some(ProxyModel(d[1].server, Null, Null))

\* playwright: launch_kwargs['proxy'] = {'server': ..}, with 'username' added
\* if proxy.get('username') and 'password' added if proxy.get('password'); Null
\* is a key that is left out.
PlaywrightProxy(d) ==
    IF d = None THEN None
    ELSE Some(ProxyModel(d[1].server,
                         IF Truthy(d[1].username) THEN d[1].username ELSE Null,
                         IF Truthy(d[1].password) THEN d[1].password ELSE Null))

LaunchProxy(d) == IF Backend = "browser_use" THEN BrowserUseProxy(d) ELSE PlaywrightProxy(d)

\* Browser(..) and await browser.start(), or await p.chromium.launch(..).
\* browser_use is given user_data_dir = profile_dir and works in it; the
\* playwright launch is given no directory and leaves profile_dir as made.  With
\* no backend, write_status({'status': 'error', 'error': 'no browser backend available'}).
Launch(id) ==
    /\ Runs(id, "launch")
    /\ \/ /\ Backend = "none"
          /\ write_status(id, Record("error", NoBackendMsg))
          /\ UNCHANGED <<browser, exc, workdir, profiles, launch_proxy>>
       \/ /\ Backend # "none"
          /\ Fail(id, "launch")
          /\ UNCHANGED <<workdir, profiles, launch_proxy>>
       \/ /\ Backend # "none"
          /\ browser' = [browser EXCEPT ![id] = "open"]
          /\ launch_proxy' = [launch_proxy EXCEPT ![id] = LaunchProxy(proxy[id])]
          /\ IF Backend = "browser_use"
             THEN PutWorkingDir(id, BrowserWrites(WorkingDir(id), id))
             ELSE UNCHANGED <<workdir, profiles>>
          /\ pc' = [pc EXCEPT ![id] = "goto"]
          /\ loop' = 0
          /\ UNCHANGED <<status, s, exc>>
    /\ UNCHANGED <<config, kind, screenshot, zips, minted, profile_id, proxy>>

\* await browser.new_page() (new_context), await page.goto(url)
Goto(id) ==
    /\ Runs(id, "goto")
    /\ \/ Fail(id, "goto")
       \/ /\ pc' = [pc EXCEPT ![id] = "screenshot"]
          /\ loop' = 0
          /\ UNCHANGED <<status, s, browser, exc>>
    /\ UNCHANGED <<config, kind, screenshot, workdir, store, profile_id, proxy, launch_proxy>>

\* await page.screenshot(..) after the settle delay; the library returns the
\* image or raises.  browser_use: the bytes are written to screenshot.png, and
\* an exception is passed over (except Exception: pass).  playwright: the
\* library writes the file, and an exception reaches the handler.
Screenshot(id) ==
    /\ Runs(id, "screenshot")
    /\ \/ /\ screenshot' = [screenshot EXCEPT ![id] = TRUE]
          /\ pc' = [pc EXCEPT ![id] = IF Backend = "browser_use" THEN "finish" ELSE "close"]
          /\ loop' = IF Backend = "browser_use" THEN id ELSE 0
          /\ UNCHANGED <<status, s, browser, exc>>
       \/ /\ Backend = "browser_use"
          /\ exc' = [exc EXCEPT ![id] = "screenshot"]
          /\ pc' = [pc EXCEPT ![id] = "finish"]
          /\ loop' = id
          /\ UNCHANGED <<status, s, browser, screenshot>>
       \/ /\ Backend = "playwright"
          /\ Fail(id, "screenshot")
          /\ UNCHANGED screenshot
    /\ UNCHANGED <<config, kind, workdir, store, profile_id, proxy, launch_proxy>>

\* playwright: await browser.close()
Close(id) ==
    /\ Runs(id, "close")
    /\ \/ Fail(id, "close")
       \/ /\ browser' = [browser EXCEPT ![id] = "closed"]
          /\ pc' = [pc EXCEPT ![id] = "finish"]
          /\ loop' = id
          /\ UNCHANGED <<status, s, exc>>
    /\ UNCHANGED <<config, kind, screenshot, workdir, store, profile_id, proxy, launch_proxy>>

\* write_status({'status': 'finished', 'screenshot': str(screenshot_path)})
Finish(id) ==
    /\ Runs(id, "finish")
    /\ write_status(id, Record("finished", ""))
    /\ UNCHANGED <<config, kind, screenshot, workdir, store, profile_id, proxy, launch_proxy, browser, exc>>

\* browser_use: try: await browser.stop() except Exception: pass; return.
\* stop was called, whether or not it raised.
Stop(id) ==
    /\ Runs(id, "stop")
    /\ browser' = [browser EXCEPT ![id] = "closed"]
    /\ pc' = [pc EXCEPT ![id] = "returned"]
    /\ UNCHANGED <<config, kind, status, screenshot, workdir, store, s, profile_id, proxy, launch_proxy, exc, loop>>

\* playwright: return inside `async with async_playwright()` awaits its
\* __aexit__ inside the try; an exception of it reaches the handler.
AExit(id) ==
    /\ Runs(id, "aexit")
    /\ \/ Fail(id, "aexit")
       \/ /\ pc' = [pc EXCEPT ![id] = "returned"]
          /\ UNCHANGED <<status, s, browser, exc, loop>>
    /\ UNCHANGED <<config, kind, screenshot, workdir, store, profile_id, proxy, launch_proxy>>

Step(id) ==
    \/ BeginTask(id)
    \/ WriteDump(id)
    \/ ExtractUrl(id)
    \/ PrepareProfileDir(id)
    \/ Launch(id)
    \/ Goto(id)
    \/ Screenshot(id)
    \/ Close(id)
    \/ Finish(id)
    \/ Stop(id)
    \/ AExit(id)

\* A request that check_auth rejects is the same step for every guarded
\* endpoint, and the effect of an accepted request does not depend on its
\* header: the header Bearer, accepted under every configuration, stands for
\* the accepted ones.
Next ==
    \/ \E auth \in Headers : Rejected(auth)
    \/ \E p \in OptProfile : run_task(Bearer, p, None)
    \/ \E p \in OptProfile : create_session(Bearer, p, None)
    \/ \E id \in Ids : Step(id)
    \/ \E id \in Ids : complete_session(Bearer, id)
    \/ \E p \in ProfileIds : get_profile(Bearer, p)
    \/ \E p \in ProfileIds : delete_profile(Bearer, p)

Spec == Init /\ [][Next]_vars

\* The proxy conversion, applied to every proxy descriptor: one run or session
\* at a time, dispatched with any descriptor, and the steps of its task.
NextProxy ==
    \/ \E d \in ProxyDescriptors :
          (\A i \in Ids : kind[i] = "none") /\ run_task(Bearer, None, d)
    \/ \E d \in ProxyDescriptors :
          (\A i \in Ids : kind[i] = "none") /\ create_session(Bearer, None, d)
    \/ \E id \in Ids : Step(id)

SpecProxy == Init /\ [][NextProxy]_vars

----------------------------------------------------------------------------
\* The claims.

Runs_ == {i \in Ids : kind[i] = "run"}
Sessions == {i \in Ids : kind[i] = "session"}
Ended(id) == pc[id] \in {"returned", "raised"}

\* C1: for every run id that run_task returned, a status fetch at any point
\* of the run answers 200 with a record whose phase is queued, starting,
\* launching_browser, finished or error.
C1_StatusFetchGivesPhase ==
    \A id \in Runs_ : run_status(id).code = 200 /\ run_status(id).body \in Phases

\* The position of a phase in queued -> starting -> launching_browser ->
\* {finished | error}; 0 before any record is written.
PhaseRank(phase) ==
    CASE phase = "queued" -> 1
      [] phase = "starting" -> 2
      [] phase = "launching_browser" -> 3
      [] phase \in Terminal -> 4
      [] OTHER -> 0

\* C2: the phases written to one status record never go back along
\* queued -> starting -> launching_browser -> {finished | error}.
C2_PhasesNeverGoBack ==
    [][\A id \in Ids : PhaseRank(s'[id].status) >= PhaseRank(s[id].status)]_vars

\* A run whose record went through the whole sequence and is on disk.
C2_Witness ==
    \E id \in Runs_ : status[id].status = "finished" /\ Ended(id)

C4_EndedTaskWroteTerminal ==
    \A id \in Ids : Ended(id) => status[id].status \in Terminal

C9_SessionPollFindsRecord ==
    \A sid \in Sessions : status[sid] # Absent /\ session_live(sid).code # 404

C11_CompleteWithoutWorkdirGivesEmptyProfile ==
    [][\A sid \in Ids :
          complete_session(Bearer, sid) =>
              IF kind[sid] = "session"
              THEN \/ workdir[sid].exists
                   \/ /\ minted' = minted + 1
                      /\ profiles'[minted'] = Dir({})
                      /\ profiles'[minted'].exists
              ELSE UNCHANGED vars]_vars

\* The only session was completed before its task made a working directory,
\* and the archive of the empty profile has been fetched.
C11_Witness ==
    \E sid \in Sessions :
        /\ Sessions = {sid} /\ Runs_ = {}
        /\ pc[sid] = "pending" /\ ~workdir[sid].exists
        /\ minted = 1 /\ profiles[1] = Dir({}) /\ zips[1]

Spaces(n) == [i \in 1..n |-> "_"]

\* C14: check_auth allows a request if and only if no secret is configured or
\* the request's bearer token is exactly the configured secret, the token
\* being what follows "Bearer " between any surrounding whitespace; every
\* other request is rejected with one of the two 401 details.
C14_AllowedIffTokenIsSecret ==
    \A auth \in Headers :
        /\ check_auth(auth) = "ok" <=>
              \/ BRIDGE_API_KEY = <<>>
              \/ \E n \in 0..Len(auth), m \in 0..Len(auth) :
                    auth = <<"B", "_">> \o Spaces(n) \o BRIDGE_API_KEY \o Spaces(m)
        /\ check_auth(auth) \in {"ok", "Missing Authorization header", "Invalid API key"}

\* With a secret configured, a run was accepted, and the header that pads the
\* secret with spaces is one check_auth allows.
C14_Witness ==
    /\ BRIDGE_API_KEY # <<>>
    /\ check_auth(Padded) = "ok"
    /\ check_auth(<<"k">>) # "ok"
    /\ check_auth(<<"B", "_", "x">>) # "ok"
    /\ \E id \in Ids : kind[id] = "run"

\* C15: URL derivation gives every task text its target URL, the first URL in
\* the text or else the search URL, and the task goes on to navigate to it:
\* no task ends in URL derivation without a URL.
C15_EveryTaskGetsItsUrl ==
    \A id \in Ids : ~(pc[id] = "raised" /\ exc[id] = "extract_url")

\* C17: a status read that interleaves with write_status finds a complete
\* record: the file is never empty or partial, run_status answers no read
\* error, and session_live answers the record of a session that has one and no
\* screenshot yet.
C17_ReadsSeeWholeRecords ==
    \A id \in Ids :
        /\ Parses(status[id])
        /\ id \in Runs_ => run_status(id).code # 500
        /\ id \in Sessions /\ s[id] # Absent /\ ~screenshot[id] => session_live(id).code = 200

C20_OneBackendOrNoBackendError ==
    \A id \in Ids :
        /\ pc[id] \in {"close", "aexit"} => ~HAVE_BROWSER_USE /\ HAVE_PLAYWRIGHT
        /\ pc[id] = "stop" => HAVE_BROWSER_USE
        /\ browser[id] # "none" => Backend # "none"
        /\ Ended(id) => (status[id] = Record("error", NoBackendMsg) <=> Backend = "none")

\* C19: a request that check_auth rejects changes no state, on each of the
\* five guarded endpoints: no directory, status record or archive is made,
\* changed or removed and no task is dispatched.  A step that changes the
\* state is not a step of a handler whose header check_auth rejects.
C19_RejectedRequestChangesNothing ==
    [][\/ UNCHANGED vars
       \/ \A auth \in {a \in Headers : check_auth(a) # "ok"} :
             /\ \A p \in {None, Some(ClientProfile)} :
                   /\ ~run_task(auth, p, Some(ProxyModel("s", "u", "w")))
                   /\ ~create_session(auth, p, Some(ProxyModel("s", "u", "w")))
             /\ \A sid \in Ids : ~complete_session(auth, sid)
             /\ \A p \in ProfileIds : ~get_profile(auth, p) /\ ~delete_profile(auth, p)]_vars

\* With a secret configured there are a session, a profile and its archive,
\* which a request with a wrong token or with no header would act on.
C19_Witness ==
    /\ BRIDGE_API_KEY # <<>>
    /\ check_auth(<<"B", "_", "x">>) # "ok" /\ check_auth(<<>>) # "ok"
    /\ Sessions # {}
    /\ \E p \in ProfileIds : profiles[p].exists /\ zips[p]

\* The proxy settings the claim has the browser launched with: the server
\* with both credentials when both are supplied, the server alone otherwise.
BothOrServerOnly(d) ==
    IF Truthy(d.username) /\ Truthy(d.password)
    THEN ProxyModel(d.server, d.username, d.password)
    ELSE ProxyModel(d.server, Null, Null)

====
